---------------------------- MODULE Spec2Model ----------------------------
(***************************************************************************)
(* Model of merge.py: the playlist merge run (main), its record parser,    *)
(* metadata normaliser and identity/dedup resolver.                        *)
(*                                                                         *)
(* Text is modelled at character level: a string is a sequence of          *)
(* one-character strings, so that splitting, trimming, regular-expression  *)
(* matching and URL handling are computed the way the code computes them.  *)
(***************************************************************************)
EXTENDS Integers, Sequences, FiniteSets, TLC

VARIABLES
    sourcesTxt, \* environment: text of sources.txt, or None when the file is missing
    sources,    \* main: the list load_sources() returned (source names)
    fetched,    \* environment: what fetch_source returns for each list position
    pc,         \* position of main: "start", "source", "scan", "entry", "write", "done"
    scan,       \* parse_entries: its locals lines and i (1-based); i = 0 when it is not running
    si,         \* index of the source being processed (1-based)
    entries,    \* main: entries of the current source (parse_entries result)
    ei,         \* index of the next entry of the current source
    base,       \* main: base locator of the current source, or None
    grp,        \* main: group label of the current source
    added,      \* main: added counter of the current source
    merged,     \* main: the output sequence
    seen,       \* main: the seen-set of keys
    stats,      \* main: annotation per source name
    outfile,    \* content of output/kaku.m3u, or None when not written
    log,        \* output/merge_log.txt: one record per completed run
    rc,         \* return value of main, -1 while it runs
    trail,      \* history: one entry per record the loop body handled
    runs,       \* number of completed runs before the current one
    prev,       \* history: result of the previous run
    werr        \* history: the write of the output file raised in this run

vars == <<sourcesTxt, sources, fetched, pc, scan, si, entries, ei, base, grp, added, merged,
          seen, stats, outfile, log, rc, trail, runs, prev, werr>>

Min(S) == CHOOSE x \in S : \A y \in S : x <= y
Max(S) == CHOOSE x \in S : \A y \in S : x >= y

(***************************************************************************)
(* Strict evaluation.  With(v, F) is F(v) with v evaluated once, before F  *)
(* is applied, as Python evaluates the right-hand side of an assignment    *)
(* or an argument before the call.                                         *)
(***************************************************************************)
With(v, F(_)) == CHOOSE y \in {F(x) : x \in {v}} : TRUE
With2(v, w, F(_, _)) == CHOOSE y \in {F(x1, x2) : x1 \in {v}, x2 \in {w}} : TRUE
With3(v, w, u, F(_, _, _)) ==
    CHOOSE y \in {F(x1, x2, x3) : x1 \in {v}, x2 \in {w}, x3 \in {u}} : TRUE
\* a sequence given as a function, as the tuple it is
Tup(f) == <<>> \o f

(***************************************************************************)
(* Characters                                                              *)
(***************************************************************************)
UpperLetters == <<"A","B","C","D","E","F","G","H","I","J","K","L","M","N","O","P","Q","R","S","T","U","V","W","X","Y","Z">>
LowerLetters == <<"a","b","c","d","e","f","g","h","i","j","k","l","m","n","o","p","q","r","s","t","u","v","w","x","y","z">>
Digits == <<"0","1","2","3","4","5","6","7","8","9">>
HexDigits == <<"0","1","2","3","4","5","6","7","8","9","A","B","C","D","E","F">>
\* printable ASCII, code 32 first (code 96 is written GRAVE: the grave accent
\* cannot be written in a string here and occurs in no modelled text)
Ascii == <<" ","!","\"","#","$","%","&","'","(",")","*","+",",","-",".","/","0","1","2","3","4","5","6","7","8","9",":",";","<","=",">","?","@","A","B","C","D","E","F","G","H","I","J","K","L","M","N","O","P","Q","R","S","T","U","V","W","X","Y","Z","[","\\","]","^","_","GRAVE","a","b","c","d","e","f","g","h","i","j","k","l","m","n","o","p","q","r","s","t","u","v","w","x","y","z","{","|","}","~">>

Range(s) == {s[i] : i \in 1..Len(s)}
\* the position of c in a table that holds it once
IndexOf(s, c) == CHOOSE i \in 1..Len(s) : s[i] = c

UpperSet == Range(UpperLetters)
LowerSet == Range(LowerLetters)
DigitSet == Range(Digits)
HexSet == Range(HexDigits)
AsciiSet == Range(Ascii)

\* str.lower() on one character
LowerChar(c) == IF c \in UpperSet THEN LowerLetters[IndexOf(UpperLetters, c)] ELSE c
lower(s0) == With(s0, LAMBDA s : Tup([i \in 1..Len(s) |-> LowerChar(s[i])]))

\* code point of a character (characters outside printable ASCII sort last)
Ord(c) == IF c \in AsciiSet THEN 31 + IndexOf(Ascii, c) ELSE 127

\* whitespace as str.strip() and the regex class \s see it
Whitespace == {" ", "\t", "\n", "\r"}
\* the line boundaries str.splitlines() splits on
LineBreaks == {"\n", "\r"}

(***************************************************************************)
(* String helpers (Python str methods)                                     *)
(***************************************************************************)
RECURSIVE ConcatFrom(_, _)
ConcatFrom(ss, k) == IF k > Len(ss) THEN <<>> ELSE ss[k] \o ConcatFrom(ss, k + 1)
\* "".join(ss)
Concat(ss0) == With(ss0, LAMBDA ss : ConcatFrom(ss, 1))

\* s[i:] and s[:i] with 1-based positions
From(s0, i0) == With2(s0, i0, LAMBDA s, i : IF i > Len(s) THEN <<>> ELSE SubSeq(s, i, Len(s)))
Upto(s, i0) == With(i0, LAMBDA i : IF i < 1 THEN <<>> ELSE SubSeq(s, 1, i))

\* lit occurs in s at position i (all three are values at the call)
StartsAt(s, i, lit) ==
    /\ i >= 1
    /\ i + Len(lit) - 1 <= Len(s)
    /\ \A k \in 1..Len(lit) : s[i + k - 1] = lit[k]
\* the same, ignoring case (re.IGNORECASE on a literal)
StartsAtCI(s, i, lit) ==
    /\ i >= 1
    /\ i + Len(lit) - 1 <= Len(s)
    /\ \A k \in 1..Len(lit) : LowerChar(s[i + k - 1]) = LowerChar(lit[k])
startswith(s0, lit) == With(s0, LAMBDA s : StartsAt(s, 1, lit))
endswith(s0, lit) == With(s0, LAMBDA s : StartsAt(s, Len(s) - Len(lit) + 1, lit))

\* the least and the greatest element of a set of positions, 0 when it is empty
MinOr0(S0) == With(S0, LAMBDA S : IF S = {} THEN 0 ELSE Min(S))
MaxOr0(S0) == With(S0, LAMBDA S : IF S = {} THEN 0 ELSE Max(S))

\* s.find(lit, start): first position >= start where lit occurs, 0 when none
Find(s0, lit, start0) ==
    With2(s0, start0, LAMBDA s, start :
        MinOr0({i \in start..Len(s) : StartsAt(s, i, lit)}))
\* s.rfind(lit)
RFind(s0, lit) ==
    With(s0, LAMBDA s : MaxOr0({i \in 1..Len(s) : StartsAt(s, i, lit)}))
Contains(s, lit) == Find(s, lit, 1) > 0

\* s.lstrip(chars), s.rstrip(chars), s.strip()
lstripChars(s0, chars) ==
    With(s0, LAMBDA s :
        With(MinOr0({i \in 1..Len(s) : s[i] \notin chars}), LAMBDA a :
            IF a = 0 THEN <<>> ELSE SubSeq(s, a, Len(s))))
rstripChars(s0, chars) ==
    With(s0, LAMBDA s :
        With(MaxOr0({i \in 1..Len(s) : s[i] \notin chars}), LAMBDA b :
            IF b = 0 THEN <<>> ELSE SubSeq(s, 1, b)))
strip(s) == lstripChars(rstripChars(s, Whitespace), Whitespace)

\* s.replace(c, "") for each character c of chars
RemoveChars(s, chars) == SelectSeq(s, LAMBDA c : c \notin chars)

\* s.split(sep) for a single-character separator: always at least one part
RECURSIVE split(_, _)
split(s0, sep) ==
    With(s0, LAMBDA s :
        With(Find(s, <<sep>>, 1), LAMBDA i :
            IF i = 0 THEN <<s>> ELSE <<Upto(s, i - 1)>> \o split(From(s, i + 1), sep)))
\* s.split(sep, 1)
split1(s0, sep) ==
    With(s0, LAMBDA s :
        With(Find(s, <<sep>>, 1), LAMBDA i :
            IF i = 0 THEN <<s>> ELSE <<Upto(s, i - 1), From(s, i + 1)>>))

\* sep.join(parts)
RECURSIVE JoinFrom(_, _, _)
JoinFrom(sep, parts, k) ==
    IF k > Len(parts) THEN <<>>
    ELSE IF k = Len(parts) THEN parts[k]
    ELSE parts[k] \o sep \o JoinFrom(sep, parts, k + 1)
join(sep, parts0) == With(parts0, LAMBDA parts : JoinFrom(sep, parts, 1))

\* the positions of s where a line boundary begins ("\r\n" is one boundary)
LineEnds(s) ==
    {k \in 1..Len(s) : s[k] \in LineBreaks /\ ~(s[k] = "\n" /\ k > 1 /\ s[k - 1] = "\r")}
\* the position after the line boundary that begins at k
AfterLineEnd(s, k) == IF s[k] = "\r" /\ k < Len(s) /\ s[k + 1] = "\n" THEN k + 2 ELSE k + 1
\* the lines of s from position start on, ends being the boundaries not yet passed
RECURSIVE LinesFrom(_, _, _)
LinesFrom(s, start0, ends0) ==
    With2(start0, ends0, LAMBDA start, ends :
        IF ends = {} THEN (IF start > Len(s) THEN <<>> ELSE <<SubSeq(s, start, Len(s))>>)
        ELSE With(Min(ends), LAMBDA e :
                 <<SubSeq(s, start, e - 1)>> \o LinesFrom(s, AfterLineEnd(s, e), ends \ {e})))
\* content.splitlines(): "\n", "\r" and "\r\n" end a line; no empty last line
splitlines(s0) == With(s0, LAMBDA s : LinesFrom(s, 1, LineEnds(s)))

\* first position >= i of s that is not whitespace (Len(s)+1 when none): \s*
SkipWs(s0, i0) ==
    With2(s0, i0, LAMBDA s, i :
        With(MinOr0({k \in i..Len(s) : s[k] \notin Whitespace}), LAMBDA m :
            IF m = 0 THEN Len(s) + 1 ELSE m))

\* lexicographic order of strings by code point (Python's < on str)
RECURSIVE StrLessFrom(_, _, _)
StrLessFrom(a, b, k) ==
    IF k > Len(b) THEN FALSE
    ELSE IF k > Len(a) THEN TRUE
    ELSE IF a[k] # b[k] THEN Ord(a[k]) < Ord(b[k])
    ELSE StrLessFrom(a, b, k + 1)
StrLess(a0, b0) == With2(a0, b0, LAMBDA a, b : StrLessFrom(a, b, 1))

(***************************************************************************)
(* Regular expressions of merge.py (lines 40-44), matched as re does.      *)
(* Lines never hold a line break: they come out of splitlines().           *)
(***************************************************************************)
NoMatch == [ok |-> FALSE, from |-> 0, next |-> 0, g1 |-> <<>>]

\* the rest of name\s*=\s*"([^"]*)" once name matched at i: b is the place of "="
AttrMatchValue(s, i, c) ==
    IF ~(c <= Len(s) /\ s[c] = "\"") THEN NoMatch
    ELSE With(Find(s, <<"\"">>, c + 1), LAMBDA q :
             IF q = 0 THEN NoMatch
             ELSE [ok |-> TRUE, from |-> i, next |-> q + 1, g1 |-> SubSeq(s, c + 1, q - 1)])

\* name\s*=\s*"([^"]*)" with re.IGNORECASE, tried at position i of s
AttrMatchAt(s0, i0, name) ==
    With2(s0, i0, LAMBDA s, i :
        IF ~StartsAtCI(s, i, name) THEN NoMatch
        ELSE With(SkipWs(s, i + Len(name)), LAMBDA b :
                 IF ~(b <= Len(s) /\ s[b] = "=") THEN NoMatch
                 ELSE With(SkipWs(s, b + 1), LAMBDA c : AttrMatchValue(s, i, c))))

\* pattern.search(s) for such a pattern, from position start: leftmost match
AttrSearch(s0, name, start0) ==
    With2(s0, start0, LAMBDA s, start :
        With(MinOr0({i \in start..Len(s) : AttrMatchAt(s, i, name).ok}), LAMBDA i :
            IF i = 0 THEN NoMatch ELSE AttrMatchAt(s, i, name)))

\* pattern.sub(repl, s): every non-overlapping match, left to right
RECURSIVE AttrSub(_, _, _, _)
AttrSub(s0, name, repl, start0) ==
    With2(s0, start0, LAMBDA s, start :
        With(AttrSearch(s, name, start), LAMBDA m :
            IF ~m.ok THEN From(s, start)
            ELSE SubSeq(s, start, m.from - 1) \o repl \o AttrSub(s, name, repl, m.next)))

TVGID_RE_search(s) == AttrSearch(s, <<"t","v","g","-","i","d">>, 1)
GROUP_RE_search(s) == AttrSearch(s, <<"g","r","o","u","p","-","t","i","t","l","e">>, 1)
GROUP_RE_sub(s, repl) == AttrSub(s, <<"g","r","o","u","p","-","t","i","t","l","e">>, repl, 1)

\* EXTINF_RE.match(ln): ^\s*#EXTINF
EXTINF_RE_match(ln0) == With(ln0, LAMBDA ln : StartsAtCI(ln, SkipWs(ln, 1), <<"#","E","X","T","I","N","F">>))

\* EXTVLCOPT_RE.match(ln): ^\s*#EXTVLCOPT\s*:\s*(.*)$
EXTVLCOPT_RE_match(ln0) ==
    With(ln0, LAMBDA ln :
        With(SkipWs(ln, 1), LAMBDA a :
            IF ~StartsAtCI(ln, a, <<"#","E","X","T","V","L","C","O","P","T">>) THEN NoMatch
            ELSE With(SkipWs(ln, a + Len(<<"#","E","X","T","V","L","C","O","P","T">>)), LAMBDA b :
                     IF ~(b <= Len(ln) /\ ln[b] = ":") THEN NoMatch
                     ELSE [ok |-> TRUE, from |-> 1, next |-> Len(ln) + 1,
                           g1 |-> From(ln, SkipWs(ln, b + 1))])))

\* USER_AGENT_OPT_RE.search(content): http-user-agent\s*=\s*(.*)
USER_AGENT_OPT_RE_search(content0) ==
    With(content0, LAMBDA content :
        \E i \in 1..Len(content) :
            /\ StartsAtCI(content, i, <<"h","t","t","p","-","u","s","e","r","-","a","g","e","n","t">>)
            /\ With(SkipWs(content, i + Len(<<"h","t","t","p","-","u","s","e","r","-","a","g","e","n","t">>)), LAMBDA b :
                   b <= Len(content) /\ content[b] = "="))

(***************************************************************************)
(* parse_entries (lines 110-158)                                           *)
(***************************************************************************)
\* a value Python's None stands for: no text equals it
NoneStr == <<"None">>

Entry(extinf, options, url) == [extinf |-> extinf, options |-> options, url |-> url]

\* lines 129-147: the scan for the reference, from line j with the options so far
RECURSIVE ScanUrl(_, _, _)
ScanUrl(lines, j0, options0) ==
    With2(j0, options0, LAMBDA j, options :
        IF j > Len(lines) THEN [url |-> NoneStr, j |-> j, options |-> options]
        ELSE With(strip(rstripChars(lines[j], {"\n"})), LAMBDA cand_stripped :
                 IF cand_stripped = <<>> THEN ScanUrl(lines, j + 1, options)
                 ELSE IF EXTVLCOPT_RE_match(cand_stripped).ok
                      THEN ScanUrl(lines, j + 1, Append(options, cand_stripped))
                 ELSE IF startswith(cand_stripped, <<"#">>) THEN ScanUrl(lines, j + 1, options)
                 ELSE [url |-> cand_stripped, j |-> j, options |-> options]))

\* a test that takes the missing reference for one
AnyUrl(url) == TRUE
\* line 148: if url
HasUrl(url) == url # NoneStr /\ url # <<>>

\* a scan position that stays on the reference line
OnRecord(j) == j
\* line 150: i = j + 1
AfterRecord(j) == j + 1

\* a scan position that stays on the metadata line
OnExtinf(i) == i
\* line 152: i += 1
AfterExtinf(i) == i + 1

\* lines 125-152: a metadata line ln at scan position i
ParseExtinf(lines, i, ln) ==
    With(ScanUrl(lines, i + 1, <<>>), LAMBDA r :
        IF HasUrl(r.url)
        THEN [next |-> AfterRecord(r.j), emit |-> <<Entry(ln, r.options, r.url)>>]
        ELSE [next |-> AfterExtinf(i), emit |-> <<>>])

\* lines 120-157: one pass of the while loop at scan position i
ParseStep(lines, i, ln0) ==
    With(ln0, LAMBDA ln :
        IF ln = <<>> THEN [next |-> i + 1, emit |-> <<>>]
        ELSE IF startswith(ln, <<"#">>)
             THEN IF EXTINF_RE_match(ln) THEN ParseExtinf(lines, i, ln)
                  ELSE [next |-> i + 1, emit |-> <<>>]
        ELSE [next |-> i + 1, emit |-> <<Entry(NoneStr, <<>>, ln)>>])

\* lines 119-157: the while loop, from scan position i with the entries so far
RECURSIVE ParseFrom(_, _, _)
ParseFrom(lines, i0, acc0) ==
    With2(i0, acc0, LAMBDA i, acc :
        IF i > Len(lines) THEN acc
        ELSE With(ParseStep(lines, i, strip(lines[i])), LAMBDA st :
                 ParseFrom(lines, st.next, acc \o st.emit)))

\* line 116
Lines(content) ==
    With(splitlines(content), LAMBDA ls : Tup([k \in 1..Len(ls) |-> rstripChars(ls[k], {"\n"})]))

parse_entries(content) == With(Lines(content), LAMBDA lines : ParseFrom(lines, 1, <<>>))

(***************************************************************************)
(* ensure_group_in_extinf (lines 161-182), get_tvg_id (lines 185-192)      *)
(***************************************************************************)
GroupAttr(group) == <<"g","r","o","u","p","-","t","i","t","l","e","=","\"">> \o group \o <<"\"">>

\* lines 175-182: header and rest put together again
EnsureGroupIn(header, rest, group) ==
    With(IF GROUP_RE_search(header).ok
         THEN GROUP_RE_sub(header, GroupAttr(group))
         ELSE header \o <<" ">> \o GroupAttr(group),
         LAMBDA header2 : IF rest # <<>> THEN header2 \o <<",">> \o rest ELSE header2)

ensure_group_in_extinf(extinf0, group0) ==
    With2(extinf0, group0, LAMBDA extinf, group :
        IF extinf = NoneStr THEN <<"#","E","X","T","I","N","F",":","-","1"," ">> \o GroupAttr(group) \o <<",">>
        ELSE IF "," \in Range(extinf)
             THEN With(split1(extinf, ","), LAMBDA parts :
                      With2(strip(parts[1]), parts[2], LAMBDA header, rest :
                          EnsureGroupIn(header, rest, group)))
        ELSE With(strip(extinf), LAMBDA header : EnsureGroupIn(header, <<>>, group)))

get_tvg_id(extinf0) ==
    With(extinf0, LAMBDA extinf :
        IF extinf = NoneStr \/ extinf = <<>> THEN NoneStr
        ELSE With(TVGID_RE_search(extinf), LAMBDA m :
                 IF m.ok
                 THEN With(strip(m.g1), LAMBDA val : IF val # <<>> THEN val ELSE NoneStr)
                 ELSE NoneStr))

(***************************************************************************)
(* make_user_agent_option (lines 214-236)                                  *)
(***************************************************************************)
DEFAULT_USER_AGENT == <<"M","o","z","i","l","l","a","/","5",".","0"," ","(","W","i","n","d","o","w","s"," ","N","T"," ","1","0",".","0",";"," ","W","i","n","6","4",";"," ","x","6","4",")"," ","A","p","p","l","e","W","e","b","K","i","t","/","5","3","7",".","3","6"," ","(","K","H","T","M","L",","," ","l","i","k","e"," ","G","e","c","k","o",")"," ","C","h","r","o","m","e","/","1","2","1",".","0",".","0",".","0"," ","y","g","x","/","6","9",".","1"," ","S","a","f","a","r","i","/","5","3","7",".","3","6">>

\* lines 226-229: opt is an #EXTVLCOPT line whose content holds http-user-agent=
IsUserAgentOption(opt) ==
    With(EXTVLCOPT_RE_match(opt), LAMBDA m : m.ok /\ USER_AGENT_OPT_RE_search(m.g1))

\* lines 222-236, for a user agent that is given
InjectUserAgent(options, ua_line) ==
    With(Tup([k \in 1..Len(options) |-> IsUserAgentOption(options[k])]), LAMBDA isUa :
        With(Tup([k \in 1..Len(options) |-> IF isUa[k] THEN ua_line ELSE options[k]]),
             LAMBDA out :
                 IF \E k \in 1..Len(options) : isUa[k] THEN out ELSE <<ua_line>> \o out))

make_user_agent_option(options0, override_ua0) ==
    With2(options0, override_ua0, LAMBDA options, override_ua :
        IF override_ua = NoneStr THEN options
        ELSE With(<<"#","E","X","T","V","L","C","O","P","T",":","h","t","t","p","-","u","s","e","r","-","a","g","e","n","t","=">> \o override_ua, LAMBDA ua_line :
                 InjectUserAgent(options, ua_line)))

(***************************************************************************)
(* urllib.parse as merge.py uses it (line 23): urlparse, urlunparse,       *)
(* urljoin, parse_qsl, urlencode.  Characters are printable ASCII plus     *)
(* tab and the line breaks; bracketed (IPv6) hosts are not modelled.       *)
(***************************************************************************)
SchemeChars == UpperSet \cup LowerSet \cup DigitSet \cup {"+", "-", "."}
IsAlpha(c) == c \in UpperSet \cup LowerSet

uses_relative == {<<>>, <<"f","t","p">>, <<"h","t","t","p">>, <<"f","i","l","e">>, <<"h","t","t","p","s">>, <<"m","m","s">>, <<"r","t","s","p">>, <<"r","t","s","p","s">>,
                  <<"r","t","s","p","u">>, <<"s","f","t","p">>, <<"w","s">>, <<"w","s","s">>}
uses_netloc == {<<>>, <<"f","t","p">>, <<"h","t","t","p">>, <<"f","i","l","e">>, <<"h","t","t","p","s">>, <<"m","m","s">>, <<"r","t","s","p">>, <<"r","t","s","p","s">>,
                <<"r","t","s","p","u">>, <<"s","f","t","p">>, <<"r","s","y","n","c">>, <<"g","i","t">>, <<"w","s">>, <<"w","s","s">>}
uses_params == {<<>>, <<"f","t","p">>, <<"h","t","t","p">>, <<"h","t","t","p","s">>, <<"r","t","s","p">>, <<"r","t","s","p","s">>, <<"r","t","s","p","u">>, <<"s","i","p">>,
                <<"s","i","p","s">>, <<"m","m","s">>, <<"s","f","t","p">>, <<"t","e","l">>}

\* _splitparams(url), called when ";" occurs in url
splitparams(url0) ==
    With(url0, LAMBDA url :
        With(IF "/" \in Range(url) THEN Find(url, <<";">>, RFind(url, <<"/">>))
             ELSE Find(url, <<";">>, 1),
             LAMBDA i : IF i = 0 THEN [path |-> url, params |-> <<>>]
                        ELSE [path |-> Upto(url, i - 1), params |-> From(url, i + 1)]))

\* urlparse: the path and its params, the last of the six components
ParseParams(scheme0, netloc, url0, query, fragment) ==
    With2(scheme0, url0, LAMBDA scheme, url :
        With(IF scheme \in uses_params /\ ";" \in Range(url) THEN splitparams(url)
             ELSE [path |-> url, params |-> <<>>],
             LAMBDA sp : [scheme |-> scheme, netloc |-> netloc, path |-> sp.path,
                          params |-> sp.params, query |-> query, fragment |-> fragment]))

\* urlsplit: the query is what follows the first "?"
ParseQuery(scheme, netloc, url0, fragment) ==
    With(url0, LAMBDA url :
        With(Find(url, <<"?">>, 1), LAMBDA q :
            IF q > 0 THEN ParseParams(scheme, netloc, Upto(url, q - 1), From(url, q + 1), fragment)
            ELSE ParseParams(scheme, netloc, url, <<>>, fragment)))

\* urlsplit: the fragment is what follows the first "#"
ParseFragment(scheme, netloc, url0) ==
    With(url0, LAMBDA url :
        With(Find(url, <<"#">>, 1), LAMBDA h :
            IF h > 0 THEN ParseQuery(scheme, netloc, Upto(url, h - 1), From(url, h + 1))
            ELSE ParseQuery(scheme, netloc, url, <<>>)))

\* urlsplit: the netloc follows "//" and ends at the first of "/", "?", "#"
ParseNetloc(scheme, url0) ==
    With(url0, LAMBDA url :
        IF StartsAt(url, 1, <<"/","/">>)
        THEN With(MinOr0({k \in 3..Len(url) : url[k] \in {"/", "?", "#"}}), LAMBDA d :
                 IF d = 0 THEN ParseFragment(scheme, From(url, 3), <<>>)
                 ELSE ParseFragment(scheme, SubSeq(url, 3, d - 1), From(url, d)))
        ELSE ParseFragment(scheme, <<>>, url))

\* urlparse(url, scheme): the six components
urlparse2(url0, defscheme) ==
    With(RemoveChars(lstripChars(url0, Whitespace), {"\t", "\r", "\n"}), LAMBDA url :
        With(Find(url, <<":">>, 1), LAMBDA i :
            IF i > 1 /\ IsAlpha(url[1]) /\ \A k \in 1..(i - 1) : url[k] \in SchemeChars
            THEN ParseNetloc(lower(Upto(url, i - 1)), From(url, i + 1))
            ELSE ParseNetloc(defscheme, url)))

urlparse(url) == urlparse2(url, <<>>)

\* urlunsplit((scheme, netloc, url, query, fragment))
urlunsplit(scheme0, netloc0, url0, query0, fragment0) ==
    With3(scheme0, netloc0, url0, LAMBDA scheme, netloc, url :
        With2(query0, fragment0, LAMBDA query, fragment :
            (IF scheme # <<>> THEN scheme \o <<":">> ELSE <<>>)
            \o (IF netloc # <<>> \/ (scheme # <<>> /\ scheme \in uses_netloc
                                     /\ ~StartsAt(url, 1, <<"/","/">>))
                THEN <<"/","/">> \o netloc \o (IF url # <<>> /\ url[1] # "/" THEN <<"/">> \o url ELSE url)
                ELSE url)
            \o (IF query # <<>> THEN <<"?">> \o query ELSE <<>>)
            \o (IF fragment # <<>> THEN <<"#">> \o fragment ELSE <<>>)))

\* urlunparse((scheme, netloc, path, params, query, fragment))
urlunparse(scheme, netloc, path, params0, query, fragment) ==
    With(params0, LAMBDA params :
        urlunsplit(scheme, netloc, IF params # <<>> THEN path \o <<";">> \o params ELSE path,
                   query, fragment))

\* urljoin: the loop over the segments from the k-th, resolved_path so far
RECURSIVE ResolveSegments(_, _, _)
ResolveSegments(segments, k, resolved0) ==
    With(resolved0, LAMBDA resolved :
        IF k > Len(segments) THEN resolved
        ELSE IF segments[k] = <<".",".">>
             THEN ResolveSegments(segments, k + 1,
                                  IF resolved = <<>> THEN resolved
                                  ELSE SubSeq(resolved, 1, Len(resolved) - 1))
        ELSE IF segments[k] = <<".">> THEN ResolveSegments(segments, k + 1, resolved)
        ELSE ResolveSegments(segments, k + 1, Append(resolved, segments[k])))

\* segments[1:-1] = filter(None, segments[1:-1])
FilterMiddle(segments0) ==
    With(segments0, LAMBDA segments :
        IF Len(segments) <= 2 THEN segments
        ELSE <<segments[1]>>
             \o SelectSeq(SubSeq(segments, 2, Len(segments) - 1), LAMBDA x : x # <<>>)
             \o <<segments[Len(segments)]>>)

\* bpath.split('/') without its last part when that is not empty
BaseParts(bpath) ==
    With(split(bpath, "/"), LAMBDA parts :
        IF parts[Len(parts)] # <<>> THEN SubSeq(parts, 1, Len(parts) - 1) ELSE parts)

\* urljoin: the path of the reference merged into the path of the base
JoinPaths(bpath, path0) ==
    With(path0, LAMBDA path :
        With(IF StartsAt(path, 1, <<"/">>) THEN split(path, "/")
             ELSE FilterMiddle(BaseParts(bpath) \o split(path, "/")),
             LAMBDA segments :
                 With(join(<<"/">>, IF segments[Len(segments)] \in {<<".">>, <<".",".">>}
                                 THEN Append(ResolveSegments(segments, 1, <<>>), <<>>)
                                 ELSE ResolveSegments(segments, 1, <<>>)),
                      LAMBDA joined : IF joined = <<>> THEN <<"/">> ELSE joined)))

\* urljoin once both are parsed
JoinParsed(url, bp, up) ==
    IF up.scheme # bp.scheme \/ up.scheme \notin uses_relative THEN url
    ELSE IF up.scheme \in uses_netloc /\ up.netloc # <<>>
         THEN urlunparse(up.scheme, up.netloc, up.path, up.params, up.query, up.fragment)
    ELSE With(IF up.scheme \in uses_netloc THEN bp.netloc ELSE up.netloc, LAMBDA netloc :
             IF up.path = <<>> /\ up.params = <<>>
             THEN urlunparse(up.scheme, netloc, bp.path, bp.params,
                             IF up.query = <<>> THEN bp.query ELSE up.query, up.fragment)
             ELSE urlunparse(up.scheme, netloc, JoinPaths(bp.path, up.path),
                             up.params, up.query, up.fragment))

urljoin(b0, url0) ==
    With2(b0, url0, LAMBDA b, url :
        IF b = <<>> THEN url
        ELSE IF url = <<>> THEN b
        ELSE With(urlparse(b), LAMBDA bp :
                 With(urlparse2(url, bp.scheme), LAMBDA up : JoinParsed(url, bp, up))))

\* a hexadecimal digit (either case) -> its value, -1 when it is none
HexVal(c0) ==
    With(c0, LAMBDA c :
        With(IF c \in LowerSet THEN UpperLetters[IndexOf(LowerLetters, c)] ELSE c, LAMBDA u :
            IF u \in HexSet THEN IndexOf(HexDigits, u) - 1 ELSE -1))

\* the code of the escape %XX at the head of s, -1 when there is none
EscapeCode(s) ==
    IF Len(s) >= 3 /\ s[1] = "%" /\ HexVal(s[2]) >= 0 /\ HexVal(s[3]) >= 0
    THEN 16 * HexVal(s[2]) + HexVal(s[3]) ELSE -1

\* unquote(s): %XX -> the character, for the modelled (printable ASCII) codes
RECURSIVE unquote(_)
unquote(s0) ==
    With(s0, LAMBDA s :
        IF s = <<>> THEN <<>>
        ELSE With(EscapeCode(s), LAMBDA code :
                 IF code \in 32..126 THEN <<Ascii[code - 31]>> \o unquote(From(s, 4))
                 ELSE <<s[1]>> \o unquote(Tail(s))))

\* quote_plus(s): always-safe characters kept, " " -> "+", the rest %XX
AlwaysSafe == UpperSet \cup LowerSet \cup DigitSet \cup {"_", ".", "-", "~"}
QuoteChar(c0) ==
    With(c0, LAMBDA c :
        IF c \in AlwaysSafe THEN <<c>>
        ELSE IF c = " " THEN <<"+">>
        ELSE With(Ord(c), LAMBDA n : <<"%", HexDigits[(n \div 16) + 1], HexDigits[(n % 16) + 1]>>))
quote_plus(s0) == With(s0, LAMBDA s : Concat(Tup([i \in 1..Len(s) |-> QuoteChar(s[i])])))

PlusToSpace(s0) ==
    With(s0, LAMBDA s : Tup([i \in 1..Len(s) |-> IF s[i] = "+" THEN " " ELSE s[i]]))

\* parse_qsl: one name=value field; none for an empty field
ParseField(name_value0) ==
    With(name_value0, LAMBDA name_value :
        IF name_value = <<>> THEN <<>>
        ELSE With(split1(name_value, "="), LAMBDA nv :
                 <<<<unquote(PlusToSpace(nv[1])),
                     IF Len(nv) = 2 THEN unquote(PlusToSpace(nv[2])) ELSE <<>>>>>>))

\* parse_qsl(qs, keep_blank_values=True): list of <<name, value>>
parse_qsl(qs0) ==
    With(qs0, LAMBDA qs :
        IF qs = <<>> THEN <<>>
        ELSE With(split(qs, "&"), LAMBDA fields :
                 Concat(Tup([k \in 1..Len(fields) |-> ParseField(fields[k])]))))

\* urlencode(q, doseq=True) for a list of <<name, value>> strings
urlencode(q0) ==
    With(q0, LAMBDA q :
        join(<<"&">>, Tup([i \in 1..Len(q) |->
                          quote_plus(q[i][1]) \o <<"=">> \o quote_plus(q[i][2])])))

\* list.sort() of <<name, value>> tuples
PairLess(a, b) == StrLess(a[1], b[1]) \/ (a[1] = b[1] /\ StrLess(a[2], b[2]))
\* x put into the sorted list: before the first element greater than x
InsertSorted(sorted0, x) ==
    With(sorted0, LAMBDA sorted :
        With(MinOr0({k \in 1..Len(sorted) : PairLess(x, sorted[k])}), LAMBDA k :
            IF k = 0 THEN Append(sorted, x)
            ELSE SubSeq(sorted, 1, k - 1) \o <<x>> \o SubSeq(sorted, k, Len(sorted))))
RECURSIVE SortUpto(_, _)
SortUpto(q, n) == IF n = 0 THEN <<>> ELSE InsertSorted(SortUpto(q, n - 1), q[n])
SortPairs(q0) == With(q0, LAMBDA q : SortUpto(q, Len(q)))

\* re.sub(r'/+', '/', path)
CollapseSlashes(p0) ==
    With(p0, LAMBDA p : SelectSeq(Tup([k \in 1..Len(p) |->
                                         IF p[k] = "/" /\ k > 1 /\ p[k - 1] = "/" THEN "" ELSE p[k]]),
                                  LAMBDA c : c # ""))

(***************************************************************************)
(* normalize_url_for_dedupe (lines 195-211)                                *)
(***************************************************************************)
AUTH_QUERY_KEYS == {<<"t","o","k","e","n">>, <<"a","u","t","h">>, <<"s","t">>, <<"e","x","p">>, <<"s","i","g">>, <<"s","i","g","n","a","t","u","r","e">>,
                    <<"a","c","c","e","s","s","_","t","o","k","e","n">>, <<"e","x","p","i","r","e","s">>}

\* lines 196-198: the reference the key is computed from
ResolveForKey(url0, b0) ==
    With2(strip(url0), b0, LAMBDA url, b :
        IF b # NoneStr /\ b # <<>> /\ urlparse(url).scheme = <<>> THEN urljoin(b, url) ELSE url)

\* a filter that drops nothing
KeepAll(q) == q
\* line 203
FilterAuth(q) == SelectSeq(q, LAMBDA kv : lower(kv[1]) \notin AUTH_QUERY_KEYS)

\* lines 209-210
StripTrailingSlash(new0) ==
    With(new0, LAMBDA new :
        IF endswith(new, <<"/">>) /\ Len(new) > 1 THEN rstripChars(new, {"/"}) ELSE new)

normalize_url_for_dedupe(url, b) ==
    With(urlparse(ResolveForKey(url, b)), LAMBDA parsed :
        StripTrailingSlash(
            urlunparse(lower(parsed.scheme), lower(parsed.netloc),
                       CollapseSlashes(parsed.path), <<>>,
                       urlencode(SortPairs(FilterAuth(parse_qsl(parsed.query)))), <<>>)))

(***************************************************************************)
(* group_name_from_source (lines 93-107) and pathlib's name and stem       *)
(***************************************************************************)
\* PurePosixPath(p).name: the last component, "" for the root or no component
PathName(p) ==
    With(SelectSeq(split(p, "/"), LAMBDA x : x # <<>> /\ x # <<".">>), LAMBDA parts :
        IF parts = <<>> THEN <<>> ELSE parts[Len(parts)])
\* PurePosixPath(p).stem: the name without its last suffix
PathStem(p) ==
    With(PathName(p), LAMBDA name :
        With(RFind(name, <<".">>), LAMBDA i :
            IF 1 < i /\ i < Len(name) THEN Upto(name, i - 1) ELSE name))

\* re.sub(r'[chars]+', ' ', s): every run of the characters becomes one space
SubRuns(s0, chars) ==
    With(s0, LAMBDA s :
        SelectSeq(Tup([k \in 1..Len(s) |->
                         IF s[k] \notin chars THEN s[k]
                         ELSE IF k > 1 /\ s[k - 1] \in chars THEN "" ELSE " "]),
                  LAMBDA c : c # ""))

IsHttp(src) ==
    With(lower(src), LAMBDA l : startswith(l, <<"h","t","t","p",":","/","/">>) \/ startswith(l, <<"h","t","t","p","s",":","/","/">>))

\* lines 95-99
LastPart(src0) ==
    With(src0, LAMBDA src :
        IF IsHttp(src)
        THEN With(urlparse(src), LAMBDA u :
                 With(PathName(u.path), LAMBDA n : unquote(IF n # <<>> THEN n ELSE u.netloc)))
        ELSE PathName(src))

group_name_from_source(src) ==
    With(strip(SubRuns(SubRuns(PathStem(LastPart(src)), {"_", "-"}), Whitespace)), LAMBDA name :
        IF name = <<>> THEN <<"P","l","a","y","l","i","s","t">> ELSE name)

(***************************************************************************)
(* load_sources (lines 50-60)                                              *)
(***************************************************************************)
load_sources(txt0) ==
    With(txt0, LAMBDA txt :
        IF txt = NoneStr THEN <<>>
        ELSE With(splitlines(txt), LAMBDA ls :
                 SelectSeq(Tup([k \in 1..Len(ls) |-> strip(ls[k])]),
                           LAMBDA s : s # <<>> /\ ~startswith(s, <<"#">>))))

(***************************************************************************)
(* The body of the loop over the entries of a source (lines 275-293)       *)
(***************************************************************************)
\* line 282: key = tvgid if tvgid else norm_url_for_key
KeyChoice(tvgid0, norm_url_for_key) ==
    With(tvgid0, LAMBDA tvgid : IF tvgid # NoneStr THEN tvgid ELSE norm_url_for_key)

\* lines 276-282: the key of an entry of a source with base locator b and label g
EntryKey(e0, b, g) ==
    With(e0, LAMBDA e :
        KeyChoice(get_tvg_id(ensure_group_in_extinf(e.extinf, g)),
                  normalize_url_for_dedupe(strip(e.url), b)))

\* a test that rejects nothing
NeverDuplicate(key, seenSet) == FALSE
\* lines 283-284: the duplicate test against the seen-set
IsDuplicate(key, seenSet) == key \in seenSet

\* line 292: the reference stored in the output record
EmittedUrl(url, b) == url

\* lines 288-289: the title made from the reference
DisplayName(url, b0) ==
    With(b0, LAMBDA b :
        strip(SubRuns(PathStem(urlparse(urljoin(IF b = NoneStr THEN <<>> ELSE b, url)).path),
                      {"_", "-"})))

\* lines 287-291: the metadata line of the record
FinalExtinf(extinf, extinf20, url, b) ==
    With(extinf20, LAMBDA extinf2 :
        IF extinf # NoneStr THEN extinf2
        ELSE With(DisplayName(url, b), LAMBDA display :
                 IF display # <<>> THEN rstripChars(extinf2, {","}) \o display ELSE extinf2))

\* lines 276-292: the record appended for an accepted entry
OutputRecord(e0, b, g) ==
    With2(e0, strip(e0.url), LAMBDA e, url :
        Entry(FinalExtinf(e.extinf, ensure_group_in_extinf(e.extinf, g), url, b),
              make_user_agent_option(e.options, DEFAULT_USER_AGENT),
              EmittedUrl(url, b)))

\* an insertion at the front
PrependRecord(records, r) == <<r>> \o records
\* line 292: merged.append(...)
AppendRecord(records, r) == Append(records, r)

(***************************************************************************)
(* stats: a dict, kept as the list of <<key, value>> in insertion order    *)
(***************************************************************************)
DictHas(d, k) == \E i \in 1..Len(d) : d[i][1] = k
DictGet(d, k) == d[CHOOSE i \in 1..Len(d) : d[i][1] = k][2]
DictSet(d0, k0, v0) ==
    With3(d0, k0, v0, LAMBDA d, k, v :
        IF DictHas(d, k) THEN Tup([i \in 1..Len(d) |-> IF d[i][1] = k THEN <<k, v>> ELSE d[i]])
        ELSE Append(d, <<k, v>>))

\* str(n) for n >= 0
RECURSIVE FormatInt(_)
FormatInt(n0) ==
    With(n0, LAMBDA n :
        IF n < 10 THEN <<Digits[n + 1]>> ELSE FormatInt(n \div 10) \o <<Digits[(n % 10) + 1]>>)

\* the annotation of a source that gave no entries
EmptyNote == <<"o","k","_","f","o","u","n","d","=","0","_","a","d","d","e","d","=","0">>
\* line 269
FetchFailedNote == <<"f","e","t","c","h","_","f","a","i","l","e","d">>
\* line 294
OkNote(total_found, n_added) ==
    <<"o","k","_","f","o","u","n","d","=">> \o FormatInt(total_found) \o <<"_","a","d","d","e","d","=">> \o FormatInt(n_added)

(***************************************************************************)
(* The text written to output/kaku.m3u (lines 298-304)                     *)
(***************************************************************************)
\* a record written without its option lines
RenderWithoutOptions(r0) == With(r0, LAMBDA r : r.extinf \o <<"\n">> \o r.url \o <<"\n">>)
\* lines 300-304: one record
RenderRecord(r0) ==
    With(r0, LAMBDA r :
        r.extinf \o <<"\n">> \o Concat(Tup([k \in 1..Len(r.options) |-> r.options[k] \o <<"\n">>]))
        \o r.url \o <<"\n">>)
Render(records0) ==
    With(records0, LAMBDA records :
        <<"#","E","X","T","M","3","U","\n">> \o Concat(Tup([k \in 1..Len(records) |-> RenderRecord(records[k])])))

\* the values main returns (lines 312, 308, 258)
SuccessResult == 0
WriteFailedResult == 1
\* a success result for an empty list
NoSourcesSuccess == SuccessResult
NoSourcesResult == 1
\* main has not returned
Running == -1

(***************************************************************************)
(* The environment: sources.txt and what each fetch returns                *)
(***************************************************************************)
MaxSources == 2
MaxReruns == 1

SourceNames == {<<"h","t","t","p",":","/","/","c","d","n","/","l","i","v","e","/","i","n","d","e","x",".","m","3","u","8">>, <<"m","y","_","l","i","s","t",".","m","3","u">>}

Texts == {
    <<"#","E","X","T","I","N","F",":","-","1"," ","t","v","g","-","i","d","=","\"","a","b","c","\"",",","O","n","e","\n","h","t","t","p",":","/","/","x","/","1","\n","#","E","X","T","I","N","F",":","-","1"," ","t","v","g","-","i","d","=","\"","a","b","c","\"",",","D","u","p","\n","h","t","t","p",":","/","/","x","/","2","\n","#","E","X","T","I","N","F",":","-","1"," ","t","v","g","-","i","d","=","\"","A","B","C","\"",",","U","p","\n","h","t","t","p",":","/","/","x","/","3","\n","#","E","X","T","I","N","F",":","-","1",",","B","\n","#","E","X","T","I","N","F",":","-","1"," ","t","v","g","-","i","d","=","\"","c","2","\"",",","C","\n","#","E","X","T","V","L","C","O","P","T",":","h","t","t","p","-","u","s","e","r","-","a","g","e","n","t","=","u","1","\n","#","E","X","T","V","L","C","O","P","T",":","h","t","t","p","-","u","s","e","r","-","a","g","e","n","t","=","u","2","\n","h","t","t","p",":","/","/","x","/","6","\n","#","E","X","T","I","N","F",":","-","1",",","L","o","s","t","\n","#","E","X","T","V","L","C","O","P","T",":","h","t","t","p","-","r","e","f","e","r","r","e","r","=","r","\n","#"," ","e","n","d","\n">>,
    <<"h","t","t","p",":","/","/","x","/","1","\n","s","t","r","e","a","m",".","t","s","\n","#","E","X","T","I","N","F",":","-","1"," ","t","v","g","-","n","a","m","e","=","\"","N","e","w","s",","," ","L","i","v","e","\""," ","g","r","o","u","p","-","t","i","t","l","e","=","\"","O","l","d","\"",",","T","i","t","l","e","\n","h","t","t","p",":","/","/","x","/","4","\n","h","t","t","p",":","/","/","x","/","1","/","?","i","d","=","2","\n">>,
    <<"#","E","X","T","I","N","F",":","-","1"," ","t","v","g","-","i","d","=","\"","h","t","t","p",":","/","/","x","/","1","\"",",","I","d","\n","h","t","t","p",":","/","/","x","/","1","\n","#","E","X","T","I","N","F",":","-","1"," ","G","R","O","U","P","-","T","I","T","L","E","=","\"","O","l","d","\""," ","t","v","g","-","i","d","=","\""," ","\""," ","t","v","g","-","n","a","m","e","=","\"","n","\"",",","T","o","k","\n","#","E","X","T","V","L","C","O","P","T",":","h","t","t","p","-","r","e","f","e","r","r","e","r","=","r","\n","h","t","t","p",":","/","/","x","/","1","?","t","o","k","e","n","=","z","z","z","&","i","d","=","2","\n","h","t","t","p",":","/","/","x","/","1","?","i","d","=","2","\n","h","t","t","p",":","/","/","x","/","5","?","i","d","=","2","&","S","I","G","=","9","&","b","=","1","\n","h","t","t","p",":","/","/","x","/","5","?","i","d","=","2","&","b","=","1","&","e","x","p","=","7","\n","a",".","t","s","?","s","t","=","1","&","E","x","p","i","r","e","s","=","2","\n","a",".","t","s","\n">>,
    <<"#","E","X","T","M","3","U","\n","#"," ","n","o","t","h","i","n","g"," ","h","e","r","e","\n">> }

\* fetch_source(src) (lines 63-90): (None, None) on failure; the text with the
\* final URL as base for an HTTP(S) source, with no base for a local file
fetch_source(src) ==
    {[content |-> NoneStr, base |-> NoneStr]}
    \cup {[content |-> t, base |-> IF IsHttp(src) THEN src ELSE NoneStr] : t \in Texts}

NameLists == UNION {[1..n -> SourceNames] : n \in 0..MaxSources}

\* a sources.txt holding the names, one per line, after a comment and a blank line
SourcesFile(names) ==
    <<"#"," ","s","o","u","r","c","e","s","\n","\n">> \o Concat(Tup([k \in 1..Len(names) |-> <<" "," ">> \o names[k] \o <<"\n">>]))

FetchChoices(names) ==
    {f \in [1..Len(names) -> UNION {fetch_source(s) : s \in SourceNames}] :
        \A i \in 1..Len(names) : f[i] \in fetch_source(names[i])}

Init ==
    /\ \/ sourcesTxt = NoneStr /\ fetched = <<>>
       \/ \E names \in NameLists :
             /\ sourcesTxt = SourcesFile(names)
             /\ fetched \in FetchChoices(names)
    /\ sources = <<>>
    /\ pc = "start"
    /\ scan = [i |-> 0, lines |-> <<>>]
    /\ si = 1
    /\ entries = <<>>
    /\ ei = 1
    /\ base = NoneStr
    /\ grp = <<>>
    /\ added = 0
    /\ merged = <<>>
    /\ seen = {}
    /\ stats = <<>>
    /\ outfile = NoneStr
    /\ log = <<>>
    /\ rc = Running
    /\ trail = <<>>
    /\ runs = 0
    /\ prev = NoneStr
    /\ werr = FALSE

(***************************************************************************)
(* main (lines 254-312), one action per step of its control flow           *)
(***************************************************************************)
\* the seen-set left by the run before
StaleSeen == seen
\* lines 261-263: what a run starts from
FreshSeen == {}
FreshMerged == <<>>

\* lines 255-258: there is no source
NoSources ==
    /\ pc = "start"
    /\ load_sources(sourcesTxt) = <<>>
    /\ sources' = <<>>
    /\ rc' = NoSourcesResult
    /\ pc' = "done"
    /\ UNCHANGED <<scan, sourcesTxt, fetched, si, entries, ei, base, grp, added, merged, seen,
                   stats, outfile, log, trail, runs, prev, werr>>

\* lines 255-263: there are sources
Start ==
    /\ pc = "start"
    /\ \E loaded \in {load_sources(sourcesTxt)} :
          /\ loaded # <<>>
          /\ sources' = loaded
    /\ merged' = FreshMerged
    /\ seen' = FreshSeen
    /\ stats' = <<>>
    /\ si' = 1
    /\ pc' = "source"
    /\ trail' = <<>>
    /\ UNCHANGED <<scan, sourcesTxt, fetched, entries, ei, base, grp, added, outfile, log, rc,
                   runs, prev, werr>>

\* lines 267-270: the fetch failed
FetchFailed ==
    /\ pc = "source"
    /\ si <= Len(sources)
    /\ fetched[si].content = NoneStr
    /\ stats' = DictSet(stats, sources[si], FetchFailedNote)
    /\ si' = si + 1
    /\ UNCHANGED <<scan, sourcesTxt, sources, fetched, pc, entries, ei, base, grp, added,
                   merged, seen, outfile, log, rc, trail, runs, prev, werr>>

\* lines 267-274: the fetch returned a text
FetchOk ==
    /\ pc = "source"
    /\ si <= Len(sources)
    /\ fetched[si].content # NoneStr
    /\ base' = fetched[si].base
    /\ grp' = group_name_from_source(sources[si])
    /\ entries' = parse_entries(fetched[si].content)
    /\ added' = 0
    /\ ei' = 1
    /\ pc' = "entry"
    /\ UNCHANGED <<scan, sourcesTxt, sources, fetched, si, merged, seen, stats, outfile, log,
                   rc, trail, runs, prev, werr>>

\* lines 267-274 and 116-118: the fetch returned a text and parse_entries starts
\* on it (the parser taken one pass of its loop at a time)
ScanStart ==
    /\ pc = "source"
    /\ si <= Len(sources)
    /\ fetched[si].content # NoneStr
    /\ base' = fetched[si].base
    /\ grp' = group_name_from_source(sources[si])
    /\ entries' = <<>>
    /\ scan' = [i |-> 1, lines |-> Lines(fetched[si].content)]
    /\ added' = 0
    /\ ei' = 1
    /\ pc' = "scan"
    /\ UNCHANGED <<sourcesTxt, sources, fetched, si, merged, seen, stats, outfile, log,
                   rc, trail, runs, prev, werr>>

\* lines 119-157: one pass of the while loop of parse_entries
ScanStep ==
    /\ pc = "scan"
    /\ scan.i <= Len(scan.lines)
    /\ \E st \in {ParseStep(scan.lines, scan.i, strip(scan.lines[scan.i]))} :
          /\ entries' = entries \o st.emit
          /\ scan' = [scan EXCEPT !.i = st.next]
    /\ UNCHANGED <<sourcesTxt, sources, fetched, pc, si, ei, base, grp, added, merged,
                   seen, stats, outfile, log, rc, trail, runs, prev, werr>>

\* lines 119 and 158: the scan position is past the last line, parse_entries returns
ScanEnd ==
    /\ pc = "scan"
    /\ scan.i > Len(scan.lines)
    /\ scan' = [i |-> 0, lines |-> <<>>]
    /\ pc' = "entry"
    /\ UNCHANGED <<sourcesTxt, sources, fetched, si, entries, ei, base, grp, added,
                   merged, seen, stats, outfile, log, rc, trail, runs, prev, werr>>

\* history: what the loop body did with entry ei of source si
TrailEntry(e, key, accepted) ==
    [si |-> si, ei |-> ei, key |-> key, accepted |-> accepted, entry |-> e, grp |-> grp]

\* lines 275-293: an entry that is kept
EntryAccept ==
    /\ pc = "entry"
    /\ ei <= Len(entries)
    /\ strip(entries[ei].url) # <<>>
    /\ \E key \in {EntryKey(entries[ei], base, grp)} :
          /\ ~IsDuplicate(key, seen)
          /\ seen' = seen \cup {key}
          /\ merged' = AppendRecord(merged, OutputRecord(entries[ei], base, grp))
          /\ added' = added + 1
          /\ trail' = Append(trail, TrailEntry(entries[ei], key, TRUE))
    /\ ei' = ei + 1
    /\ UNCHANGED <<scan, sourcesTxt, sources, fetched, pc, si, entries, base, grp, stats,
                   outfile, log, rc, runs, prev, werr>>

\* lines 275-284: an entry that is passed over (empty reference or key seen)
EntrySkip ==
    /\ pc = "entry"
    /\ ei <= Len(entries)
    /\ \E key \in {EntryKey(entries[ei], base, grp)} :
          /\ strip(entries[ei].url) = <<>> \/ IsDuplicate(key, seen)
          /\ trail' = Append(trail, TrailEntry(entries[ei], key, FALSE))
    /\ ei' = ei + 1
    /\ UNCHANGED <<scan, sourcesTxt, sources, fetched, pc, si, entries, base, grp, added,
                   merged, seen, stats, outfile, log, rc, runs, prev, werr>>

\* lines 294-295: the entries of the source are exhausted
FinishSource ==
    /\ pc = "entry"
    /\ ei > Len(entries)
    /\ stats' = DictSet(stats, sources[si], OkNote(Len(entries), added))
    /\ si' = si + 1
    /\ pc' = "source"
    /\ UNCHANGED <<scan, sourcesTxt, sources, fetched, entries, ei, base, grp, added, merged,
                   seen, outfile, log, rc, trail, runs, prev, werr>>

\* line 265: the loop over the sources ends
SourcesDone ==
    /\ pc = "source"
    /\ si > Len(sources)
    /\ pc' = "write"
    /\ UNCHANGED <<scan, sourcesTxt, sources, fetched, si, entries, ei, base, grp, added,
                   merged, seen, stats, outfile, log, rc, trail, runs, prev, werr>>

\* write_log (lines 239-251): the record appended to the log
LogRecord == [sources_count |-> Len(sources), entries_written |-> Len(merged), stats |-> stats]

\* lines 297-312: the output file is written, the log appended, main returns 0
WriteOk ==
    /\ pc = "write"
    /\ outfile' = Render(merged)
    /\ log' = Append(log, LogRecord)
    /\ rc' = SuccessResult
    /\ pc' = "done"
    /\ UNCHANGED <<scan, sourcesTxt, sources, fetched, si, entries, ei, base, grp, added,
                   merged, seen, stats, trail, runs, prev, werr>>

\* lines 306-308: the output file cannot be opened, main returns 1
WriteFailed ==
    /\ pc = "write"
    /\ rc' = WriteFailedResult
    /\ werr' = TRUE
    /\ pc' = "done"
    /\ UNCHANGED <<scan, sourcesTxt, sources, fetched, si, entries, ei, base, grp, added,
                   merged, seen, stats, outfile, log, trail, runs, prev>>

\* what a run produced
RunResult == [merged |-> merged, stats |-> stats, rc |-> rc, sources |-> sources]

\* lines 314-315: the script is run again on the same sources.txt, every fetch
\* returning what it returned before; the files of the run before are still there
Rerun ==
    /\ pc = "done"
    /\ runs < MaxReruns
    /\ runs' = runs + 1
    /\ prev' = RunResult
    /\ pc' = "start"
    /\ rc' = Running
    /\ werr' = FALSE
    /\ UNCHANGED <<scan, sourcesTxt, sources, fetched, si, entries, ei, base, grp, added,
                   merged, seen, stats, outfile, log, trail>>

Next ==
    \/ NoSources
    \/ Start
    \/ FetchFailed
    \/ FetchOk
    \/ EntryAccept
    \/ EntrySkip
    \/ FinishSource
    \/ SourcesDone
    \/ WriteOk
    \/ WriteFailed

\* one run of the script
Spec == Init /\ [][Next]_vars

\* the script run again and again, up to MaxReruns times after the first run
NextRerun ==
    \/ Next
    \/ Rerun

SpecRerun == Init /\ [][NextRerun]_vars

\* one run of the script with parse_entries taken one pass of its loop at a
\* time; the interpreter runs the script on, so a step that can be taken is taken
NextScan ==
    \/ NoSources
    \/ Start
    \/ FetchFailed
    \/ ScanStart
    \/ ScanStep
    \/ ScanEnd
    \/ EntryAccept
    \/ EntrySkip
    \/ FinishSource
    \/ SourcesDone
    \/ WriteOk
    \/ WriteFailed

SpecScan == Init /\ [][NextScan]_vars /\ WF_vars(NextScan)
(***************************************************************************)
(* Properties of the merge run.  The history variable trail holds, for     *)
(* every entry the loop body handled in the current run, its origin        *)
(* (source number si, entry number ei, group label grp of that source),    *)
(* the key line 282 computed for it and whether it was appended to merged. *)
(***************************************************************************)
\* the entries that were kept, in the order the loop handled them
Accepted == SelectSeq(trail, LAMBDA t : t.accepted)
\* line 271 and line 267 for source number i
GroupOf(i) == group_name_from_source(sources[i])
BaseOf(i) == fetched[i].base
\* processing order: source order, then entry order within the source
Before(t, u) == t.si < u.si \/ (t.si = u.si /\ t.ei < u.ei)
\* the stripped reference of a handled entry (line 276)
RefOf(t) == strip(t.entry.url)
\* the entry has no identifier attribute the code finds (lines 185-192)
NoTvgId(t) == get_tvg_id(t.entry.extinf) = NoneStr

\* the kept entries are the output records, each with the group label of its source
KeptWithGroupOfSource(acc) ==
    /\ Len(acc) = Len(merged)
    /\ \A j, k \in 1..Len(acc) : j # k => acc[j].key # acc[k].key
    /\ \A k \in 1..Len(acc) :
          /\ acc[k].grp = GroupOf(acc[k].si)
          /\ k <= Len(merged) => Contains(merged[k].extinf, GroupAttr(acc[k].grp))

\* C1: after the loop over the sources no two output records have the same key;
\* of the entries carrying a key the first in processing order is the one kept,
\* every later one (same source or a later source) is rejected; the kept record
\* carries the group label of the source it was first seen in.
DedupFirstWins ==
    pc = "write"
    => /\ \A j, k \in 1..Len(trail) : j < k => Before(trail[j], trail[k])
       /\ \A k \in 1..Len(trail) :
             trail[k].accepted <=> /\ RefOf(trail[k]) # <<>>
                                   /\ \A j \in 1..(k - 1) : trail[j].key # trail[k].key
       /\ With(Accepted, LAMBDA acc : KeptWithGroupOfSource(acc))

\* a finished run in which an entry of a later source was rejected for a key
\* first seen in an earlier source, and an entry for a key of its own source
DedupFirstWinsWitness ==
    /\ pc = "write"
    /\ \E j, k \in 1..Len(trail) :
          /\ j < k /\ trail[j].si < trail[k].si
          /\ trail[j].key = trail[k].key /\ trail[j].accepted /\ ~trail[k].accepted
    /\ \E j, k \in 1..Len(trail) :
          /\ j < k /\ trail[j].si = trail[k].si
          /\ trail[j].key = trail[k].key /\ trail[j].accepted /\ ~trail[k].accepted

\* the kept entries are the output records, position by position, in processing order
KeptInOrder(acc) ==
    /\ Len(merged) = Len(acc)
    /\ \A k \in 1..Len(acc) : k <= Len(merged) => merged[k].url = RefOf(acc[k])
    /\ \A j, k \in 1..Len(acc) : j < k => Before(acc[j], acc[k])

\* C2: the output records are, at every point of the run, the kept entries in
\* processing order: earlier source first, within a source the entry the parser
\* emitted earlier first.
OutputInSourceOrder == With(Accepted, LAMBDA acc : KeptInOrder(acc))

\* an output sequence with records of two sources, two of them of one source
OutputInSourceOrderWitness ==
    /\ pc = "write"
    /\ Len(merged) >= 3
    /\ \E j, k \in 1..Len(Accepted) : Accepted[j].si < Accepted[k].si
    /\ \E j, k \in 1..Len(Accepted) : j < k /\ Accepted[j].si = Accepted[k].si
    /\ \E j, k \in 1..Len(merged) : merged[j].url # merged[k].url

(***************************************************************************)
(* The loop of main (lines 265-295) as a function of the source list and   *)
(* of what each fetch returns.                                             *)
(***************************************************************************)
\* lines 275-293 for the entries from the k-th on; st holds merged and seen
RECURSIVE MergeEntries(_, _, _, _, _)
MergeEntries(es, k0, b, g, st0) ==
    With2(k0, st0, LAMBDA k, st :
        IF k > Len(es) THEN st
        ELSE With(EntryKey(es[k], b, g), LAMBDA key :
                 IF strip(es[k].url) = <<>> \/ IsDuplicate(key, st.seen)
                 THEN MergeEntries(es, k + 1, b, g, st)
                 ELSE MergeEntries(es, k + 1, b, g,
                                   [merged |-> AppendRecord(st.merged, OutputRecord(es[k], b, g)),
                                    seen |-> st.seen \cup {key}])))

\* lines 265-295 for the sources from the i-th on
RECURSIVE MergeSources(_, _, _, _)
MergeSources(names, fs, i0, st0) ==
    With2(i0, st0, LAMBDA i, st :
        IF i > Len(names) THEN st
        ELSE IF fs[i].content = NoneStr THEN MergeSources(names, fs, i + 1, st)
        ELSE With2(parse_entries(fs[i].content), group_name_from_source(names[i]),
                   LAMBDA es, g :
                       MergeSources(names, fs, i + 1, MergeEntries(es, 1, fs[i].base, g, st))))

\* lines 261-295
MergeRun(names0, fs0) ==
    With2(names0, fs0, LAMBDA names, fs :
        MergeSources(names, fs, 1, [merged |-> FreshMerged, seen |-> FreshSeen]))

\* the positions of the source list whose fetch failed, and the others in order
FailedPositions == {i \in 1..Len(sources) : fetched[i].content = NoneStr}
RECURSIVE OtherPositions(_)
OtherPositions(i) ==
    IF i > Len(sources) THEN <<>>
    ELSE (IF i \in FailedPositions THEN <<>> ELSE <<i>>) \o OtherPositions(i + 1)
\* the source list and the fetch results with the failed sources removed
SourcesWithoutFailed == With(OtherPositions(1), LAMBDA ps : Tup([k \in 1..Len(ps) |-> sources[ps[k]]]))
FetchedWithoutFailed == With(OtherPositions(1), LAMBDA ps : Tup([k \in 1..Len(ps) |-> fetched[ps[k]]]))

\* C3: a source whose fetch fails gets the failure annotation, adds no record
\* and no key, every later source is still processed, and the output sequence
\* is the one of the run over the list without the failed sources.
FailedSourceContributesNothing ==
    /\ \A k \in 1..Len(trail) : trail[k].si \notin FailedPositions
    /\ \A i \in 1..Len(sources) :
          (pc \in {"source", "entry"} /\ i < si) \/ pc \in {"write", "done"}
              => /\ DictHas(stats, sources[i])
                 /\ i \in FailedPositions /\ (\A j \in (i + 1)..Len(sources) : sources[j] # sources[i])
                        /\ pc \in {"write", "done"}
                        => DictGet(stats, sources[i]) = <<"f","e","t","c","h","_","f","a","i","l","e","d">>
    /\ pc = "write"
          => With(MergeRun(SourcesWithoutFailed, FetchedWithoutFailed), LAMBDA st :
                 merged = st.merged /\ seen = st.seen)

\* a finished run whose first source failed and whose second gave records
FailedSourceContributesNothingWitness ==
    /\ pc = "done"
    /\ Len(sources) = 2
    /\ 1 \in FailedPositions /\ 2 \notin FailedPositions
    /\ sources[1] # sources[2]
    /\ merged # <<>>
    /\ DictGet(stats, sources[1]) = <<"f","e","t","c","h","_","f","a","i","l","e","d">>

\* C4: a second run on the same source list with the same fetch results gives
\* the same output sequence and the same annotations as the first; each run
\* starts from an empty seen-set and an empty output sequence.
RerunSameResult ==
    /\ runs >= 1 /\ pc \in {"write", "done"} => merged = prev.merged /\ stats = prev.stats
    /\ pc = "source" /\ si = 1 => seen = {} /\ merged = <<>>

\* a second run that is finished and that kept and rejected entries
RerunSameResultWitness ==
    /\ runs >= 1 /\ pc = "done" /\ rc = SuccessResult
    /\ Len(merged) >= 2
    /\ \E k \in 1..Len(trail) : ~trail[k].accepted
    /\ prev.merged = merged

\* C5: the reference of an output record is the reference resolved against the
\* base locator when it has no scheme and the base is known, and the reference
\* unchanged otherwise.
EmitsResolvedReference ==
    \A k \in 1..Len(Accepted) :
        k <= Len(merged)
        => merged[k].url =
              IF urlparse(RefOf(Accepted[k])).scheme = <<>> /\ BaseOf(Accepted[k].si) # NoneStr
              THEN urljoin(BaseOf(Accepted[k].si), RefOf(Accepted[k]))
              ELSE RefOf(Accepted[k])

\* C6: the key of an entry with a non-empty identifier attribute is the
\* lower-cased value: entries whose values differ only in letter case have the
\* same key and only the first is kept.
IdKeyIsLowerCased ==
    \A j, k \in 1..Len(trail) :
        /\ ~NoTvgId(trail[j]) /\ ~NoTvgId(trail[k])
        /\ lower(get_tvg_id(trail[j].entry.extinf)) = lower(get_tvg_id(trail[k].entry.extinf))
        => /\ trail[j].key = trail[k].key
           /\ j < k => ~trail[k].accepted

\* the name of a query field as written, lower-cased
FieldName(f) == lower(split1(f, "=")[1])
\* a reference without fragment, as text: what precedes "?" and the query fields
\* whose name is not in the auth-like set
WithoutAuthFields(url0) ==
    With(url0, LAMBDA url :
        With(Find(url, <<"?">>, 1), LAMBDA q :
            IF q = 0 THEN [head |-> url, fields |-> <<>>]
            ELSE [head |-> Upto(url, q - 1),
                  fields |-> SelectSeq(split(From(url, q + 1), "&"),
                                       LAMBDA f : f # <<>> /\ FieldName(f) \notin AUTH_QUERY_KEYS)]))
\* two handled entries whose references, as resolved for the key (lines 196-198),
\* have no fragment and differ only in query fields of the auth-like set
DifferOnlyInAuth(t, u) ==
    With2(ResolveForKey(RefOf(t), BaseOf(t.si)), ResolveForKey(RefOf(u), BaseOf(u.si)),
          LAMBDA a, b : /\ "#" \notin Range(a) /\ "#" \notin Range(b)
                        /\ WithoutAuthFields(a) = WithoutAuthFields(b))

\* C7: when the loop over the sources has ended, any two handled entries
\* without identifier attribute whose references differ only in query parameters
\* of the auth-like set have the same key, and the second one was rejected.
AuthParamsIgnored ==
    pc = "write"
    => \A j, k \in 1..Len(trail) :
          j < k /\ NoTvgId(trail[j]) /\ NoTvgId(trail[k]) /\ DifferOnlyInAuth(trail[j], trail[k])
          => trail[j].key = trail[k].key /\ ~trail[k].accepted

\* http://x/1?token=zzz&id=2 was kept and http://x/1?id=2 after it rejected
AuthParamsIgnoredWitness ==
    /\ pc = "write"
    /\ \E j, k \in 1..Len(trail) :
        /\ j < k /\ NoTvgId(trail[j]) /\ NoTvgId(trail[k])
        /\ RefOf(trail[j]) = <<"h","t","t","p",":","/","/","x","/","1","?","t","o","k","e","n","=","z","z","z","&","i","d","=","2">>
        /\ RefOf(trail[k]) = <<"h","t","t","p",":","/","/","x","/","1","?","i","d","=","2">>
        /\ DifferOnlyInAuth(trail[j], trail[k])
        /\ trail[j].accepted /\ ~trail[k].accepted

\* C8: the rendered output, parsed again by parse_entries, gives the output
\* records: as many, in the same order, each with the same metadata line, the
\* same option lines and the same reference; the file written is that text.
RoundTrip ==
    pc = "done" /\ rc = SuccessResult
    => outfile = Render(merged) /\ parse_entries(outfile) = merged

\* a written output of several records, one with an option line of its source
RoundTripWitness ==
    /\ pc = "done" /\ rc = SuccessResult /\ outfile # NoneStr
    /\ Len(merged) >= 2
    /\ \E k \in 1..Len(merged) : Len(merged[k].options) >= 2
    /\ \E k \in 1..Len(trail) : trail[k].accepted /\ trail[k].entry.extinf = NoneStr
    /\ parse_entries(outfile) = merged

RECURSIVE GroupValuesFrom(_, _)
GroupValuesFrom(s, start) ==
    With(AttrSearch(s, <<"g","r","o","u","p","-","t","i","t","l","e">>, start), LAMBDA m :
        IF ~m.ok THEN <<>> ELSE <<m.g1>> \o GroupValuesFrom(s, m.next))

\* C10: the metadata line of every output record has exactly one group
\* attribute, and its value is the group label of the source of the record.
ExactlyOneGroupAttribute ==
    \A k \in 1..Len(Accepted) :
        k <= Len(merged)
        => GroupValuesFrom(merged[k].extinf, 1) = <<GroupOf(Accepted[k].si)>>


(***************************************************************************)
(* Properties of the option lines of the output records.                   *)
(***************************************************************************)
\* the option line make_user_agent_option writes for DEFAULT_USER_AGENT (line 222)
DefaultUaLine == <<"#","E","X","T","V","L","C","O","P","T",":","h","t","t","p","-","u","s","e","r","-","a","g","e","n","t","=">> \o DEFAULT_USER_AGENT
\* the option lines of a record that set the user agent, and the other ones
UserAgentOptions(options) == SelectSeq(options, IsUserAgentOption)
OtherOptions(options) == SelectSeq(options, LAMBDA o : ~IsUserAgentOption(o))

\* the record made from a kept entry has one user-agent option, the default
\* one, in the place of the entry's own or at the front, and the entry's
\* other options in their order
OneUserAgentOption(e, r) ==
    /\ UserAgentOptions(r.options) = <<DefaultUaLine>>
    /\ OtherOptions(r.options) = OtherOptions(e.options)
    /\ UserAgentOptions(e.options) = <<>> => r.options = <<DefaultUaLine>> \o e.options
    /\ UserAgentOptions(e.options) # <<>> =>
          \E k \in 1..Len(e.options) :
             /\ IsUserAgentOption(e.options[k])
             /\ k <= Len(r.options) /\ r.options[k] = DefaultUaLine

\* C11: every output record has exactly one user-agent option line, the one
\* carrying DEFAULT_USER_AGENT, whatever number of user-agent option lines the
\* entry had: an existing one is replaced in place, a missing one is put at the
\* front, the other option lines keep their order.
ExactlyOneUserAgentOption ==
    pc = "write"
    => With(Accepted, LAMBDA acc :
           \A k \in 1..Len(acc) :
               k <= Len(merged) => OneUserAgentOption(acc[k].entry, merged[k]))

(***************************************************************************)
(* Properties of parse_entries, stated on the lines of the text the loop   *)
(* of main has just fetched and parsed (pc = "entry", ei = 1: entries is   *)
(* parse_entries(fetched[si].content), line 273).                          *)
(***************************************************************************)
\* the text of the current source, line by line, each line stripped (lines 116, 120)
Trimmed(content) ==
    With(Lines(content), LAMBDA ls : Tup([k \in 1..Len(ls) |-> strip(ls[k])]))
\* a line that is neither blank nor a comment
IsReferenceLine(ln) == ln # <<>> /\ ~startswith(ln, <<"#">>)
\* a metadata line
IsMetadataLine(ln) == startswith(ln, <<"#">>) /\ EXTINF_RE_match(ln)
\* the positions of the reference lines of ts, in line order
ReferencePositions(ts) ==
    SelectSeq(Tup([k \in 1..Len(ts) |-> k]), LAMBDA k : IsReferenceLine(ts[k]))
\* the positions of the metadata lines of ts strictly between lines q and p
MetadataBetween(ts, q, p) ==
    SelectSeq(Tup([k \in 1..Len(ts) |-> k]),
              LAMBDA k : q < k /\ k < p /\ IsMetadataLine(ts[k]))
\* the parser has just run on the text of source si
JustParsed == pc = "entry" /\ ei = 1

\* the k-th entry carries the last metadata line between the reference line
\* before its own (ps[k-1]) and its own (ps[k]), and none when there is none
CarriesLastMetadata(ts, ps, k) ==
    With(MetadataBetween(ts, IF k = 1 THEN 0 ELSE ps[k - 1], ps[k]), LAMBDA ms :
        IF ms = <<>> THEN entries[k].extinf = NoneStr
        ELSE entries[k].extinf = ts[ms[Len(ms)]])

\* C12: of several metadata lines in a row before a reference line (only blank,
\* option or comment lines between them) the entry emitted for the reference
\* carries the last one; the earlier ones emit no entry and do not attach.
LastMetadataLineAttaches ==
    JustParsed
    => With(Trimmed(fetched[si].content), LAMBDA ts :
           With(ReferencePositions(ts), LAMBDA ps :
               /\ Len(entries) = Len(ps)
               /\ \A k \in 1..Len(ps) : k <= Len(entries) => CarriesLastMetadata(ts, ps, k)))

\* the positions of the metadata lines of ts that have no reference line after them
OrphanMetadata(ts, ps) ==
    MetadataBetween(ts, IF ps = <<>> THEN 0 ELSE ps[Len(ps)], Len(ts) + 1)

\* the entries are those of the text cut before its first orphan metadata line
SameAsWithoutOrphans(ts, ps, os) ==
    /\ Len(entries) = Len(ps)
    /\ \A k \in 1..Len(entries) : HasUrl(entries[k].url)
    /\ os # <<>> => entries = ParseFrom(SubSeq(Lines(fetched[si].content), 1, os[1] - 1), 1, <<>>)

\* C13: a metadata line with no reference line after it up to the end of the
\* text emits no entry; the entries are exactly those of the lines before it, and
\* the option and comment lines after it emit none.
OrphanMetadataDropped ==
    JustParsed
    => With(Trimmed(fetched[si].content), LAMBDA ts :
           With(ReferencePositions(ts), LAMBDA ps :
               With(OrphanMetadata(ts, ps), LAMBDA os : SameAsWithoutOrphans(ts, ps, os))))

\* a parsed text that ends with a metadata line, an option line and a comment
\* line after its last reference line, and that has entries before them
OrphanMetadataDroppedWitness ==
    /\ JustParsed
    /\ Len(entries) >= 2
    /\ With(Trimmed(fetched[si].content), LAMBDA ts :
           With(ReferencePositions(ts), LAMBDA ps :
               With(OrphanMetadata(ts, ps), LAMBDA os :
                   /\ os # <<>>
                   /\ \E k \in (os[1] + 1)..Len(ts) : EXTVLCOPT_RE_match(ts[k]).ok
                   /\ \E k \in (os[1] + 1)..Len(ts) :
                         startswith(ts[k], <<"#">>) /\ ~EXTVLCOPT_RE_match(ts[k]).ok)))

(***************************************************************************)
(* Properties of the key of an entry (lines 279-285).                      *)
(***************************************************************************)
\* line 281: the identifier main finds for a handled entry, NoneStr when it has none
IdOf(t) == get_tvg_id(ensure_group_in_extinf(t.entry.extinf, t.grp))
\* line 279: the normalized reference of a handled entry
NormOf(t) == normalize_url_for_dedupe(RefOf(t), BaseOf(t.si))
\* the identifier and the normalized reference of every handled entry
IdsOfTrail == Tup([k \in 1..Len(trail) |-> IdOf(trail[k])])
NormsOfTrail == Tup([k \in 1..Len(trail) |-> NormOf(trail[k])])

\* an entry is only ever rejected for an earlier entry of its own kind of key
RejectedBySameVariant(ids) ==
    \A j, k \in 1..Len(trail) :
        /\ j < k /\ trail[j].accepted /\ ~trail[k].accepted
        /\ RefOf(trail[k]) # <<>> /\ trail[j].key = trail[k].key
        => ((ids[j] = NoneStr) <=> (ids[k] = NoneStr))

\* C14: identifier keys and reference keys never collide: an entry kept under
\* the identifier v does not make a later entry without identifier whose
\* normalized reference is v be rejected, and an entry kept under a normalized
\* reference does not make a later entry with that string as identifier be rejected.
KeyVariantsNeverCollide ==
    pc = "write" => With(IdsOfTrail, LAMBDA ids : RejectedBySameVariant(ids))

\* the key is the identifier when there is one and the normalized reference otherwise
KeyByPrecedence(ids, norms) ==
    \A k \in 1..Len(trail) :
        trail[k].key = IF ids[k] # NoneStr THEN ids[k] ELSE norms[k]

\* entries with one reference and different identifiers, or of which one has
\* no identifier, do not exclude each other
SameReferenceBothKept(ids) ==
    \A j, k \in 1..Len(trail) :
        /\ j < k /\ RefOf(trail[j]) = RefOf(trail[k]) /\ RefOf(trail[k]) # <<>>
        /\ ids[j] # ids[k]
        => trail[j].key # trail[k].key

\* C15: an entry with a non-empty identifier is keyed by the identifier alone,
\* an entry whose identifier is absent, empty or blank by its normalized
\* reference; so two entries with one reference and different identifiers are
\* both kept, and so are an entry with an identifier and one without that share
\* a reference.
IdentifierKeyPrecedence ==
    pc = "write"
    => With2(IdsOfTrail, NormsOfTrail, LAMBDA ids, norms :
           KeyByPrecedence(ids, norms) /\ SameReferenceBothKept(ids))

\* the references p and q, parsed as line 199 parses them, differ only in that
\* p has one more separator at the end of its path, which is not the root
OneMoreTrailingSlash(p, q) ==
    /\ q.path # <<>> /\ ~endswith(q.path, <<"/">>)
    /\ p.path = q.path \o <<"/">>
    /\ p.scheme = q.scheme /\ p.netloc = q.netloc /\ p.params = q.params
    /\ p.query = q.query /\ p.fragment = q.fragment

\* the parsed references of the handled entries
ParsedRefsOfTrail == Tup([k \in 1..Len(trail) |-> urlparse(RefOf(trail[k]))])

\* entries keyed by reference whose references differ by one trailing
\* separator have one key; a reference with the root path keeps the separator
TrailingSlashIgnored(ids, refs) ==
    /\ \A j, k \in 1..Len(trail) :
          /\ ids[j] = NoneStr /\ ids[k] = NoneStr
          /\ BaseOf(trail[j].si) = BaseOf(trail[k].si) \/ refs[k].scheme # <<>>
          /\ OneMoreTrailingSlash(refs[j], refs[k])
          => trail[j].key = trail[k].key
    /\ \A k \in 1..Len(trail) :
          ids[k] = NoneStr /\ refs[k].path = <<"/">> /\ refs[k].query = <<>>
          => endswith(trail[k].key, <<"/">>)

\* C16: the normalized reference has a trailing path separator stripped unless
\* the path is the root: references that differ only by one trailing separator
\* at the end of a non-root path, with or without a query after the path, get the
\* same reference key, and a root path keeps its separator in the key.
TrailingSeparatorStripped ==
    pc = "write"
    => With2(IdsOfTrail, ParsedRefsOfTrail, LAMBDA ids, refs : TrailingSlashIgnored(ids, refs))

(***************************************************************************)
(* Termination, on the run that takes parse_entries one pass at a time.    *)
(***************************************************************************)
\* every pass of the loop of parse_entries moves the scan position forward,
\* and the loop is left only by returning the entries to main
ScanMovesForward ==
    [][pc = "scan" => \/ pc' = "scan" /\ scan'.i > scan.i
                      \/ pc' = "entry"]_vars
\* what the passes collected is what parse_entries returns
ScanGivesEntries == JustParsed => entries = parse_entries(fetched[si].content)

\* C17: parse_entries terminates on every text and the run of main on every
\* source list: every pass of the line scan moves the scan position strictly
\* forward, also after a metadata line for which no reference is found, the scan
\* is left only with the entries of the text, and every run, scans included,
\* reaches its end.
ParserAndRunTerminate ==
    /\ ScanMovesForward
    /\ [](ScanGivesEntries)
    /\ <>(pc = "done")

\* a finished run that scanned a text holding a metadata line without a
\* reference after it, and that has output records
ParserAndRunTerminateWitness ==
    /\ pc = "done"
    /\ merged # <<>>
    /\ \E k \in 1..Len(fetched) :
          /\ fetched[k].content # NoneStr
          /\ With(Trimmed(fetched[k].content), LAMBDA ts :
                 OrphanMetadata(ts, ReferencePositions(ts)) # <<>>)

\* entry k is made from the k-th reference line and from no other
OneEntryPerReference(ts, ps) ==
    /\ Len(entries) = Len(ps)
    /\ \A k \in 1..Len(entries) :
          /\ k <= Len(ps) => entries[k].url = ts[ps[k]]
          /\ entries[k].url # NoneStr /\ entries[k].url # <<>>
          /\ ~startswith(entries[k].url, <<"#">>)
    /\ \A j, k \in 1..Len(ps) : j < k => ps[j] < ps[k]

\* C18: parse_entries emits exactly one entry for every reference line (a line
\* that is not blank and does not start with "#"), in line order, with the
\* stripped line as its reference: no reference line is lost, none is used
\* twice, and no entry has an empty reference or one that starts with "#".
EntriesAreTheReferenceLines ==
    JustParsed
    => With(Trimmed(fetched[si].content), LAMBDA ts :
           OneEntryPerReference(ts, ReferencePositions(ts)))

\* a parsed text with reference lines after a metadata line and option lines
\* and reference lines on their own, among lines that are no reference lines
EntriesAreTheReferenceLinesWitness ==
    /\ JustParsed
    /\ Len(entries) >= 3
    /\ \E k \in 1..Len(entries) : entries[k].extinf # NoneStr /\ entries[k].options # <<>>
    /\ \E k \in 1..Len(entries) : entries[k].extinf = NoneStr
    /\ Len(Lines(fetched[si].content)) > Len(entries) + 1

(***************************************************************************)
(* The annotations of the sources (stats, lines 263, 269, 294).            *)
(***************************************************************************)
\* the annotation v is the one of a successful source with these counts
IsOkNote(v, found, n_added) == v = OkNote(found, n_added)
\* the added count an annotation states, 0 for a failed source; no count
\* exceeds the number of entries the loop handled
AddedOf(v) ==
    IF v = FetchFailedNote THEN 0
    ELSE CHOOSE a \in 0..Len(trail) : \E f \in 0..Len(trail) : IsOkNote(v, f, a)
\* the sum of the added counts of the annotations from the k-th on
RECURSIVE SumAdded(_, _)
SumAdded(notes, k) ==
    IF k > Len(notes) THEN 0 ELSE AddedOf(notes[k][2]) + SumAdded(notes, k + 1)

\* C19: after the loop over any source list, also one that names a source more
\* than once, there is one annotation for every entry of the list, every
\* annotation of a successful source has 0 <= added <= found, and the number of
\* output records is the sum of the added counts of all annotations.
OneAnnotationPerListEntry ==
    pc = "write"
    => /\ Len(stats) = Len(sources)
       /\ \A k \in 1..Len(stats) :
             \/ stats[k][2] = FetchFailedNote
             \/ \E f \in 0..Len(trail) : \E a \in 0..f : IsOkNote(stats[k][2], f, a)
       /\ Len(merged) = SumAdded(stats, 1)
=============================================================================
